---- MODULE Spec2Model ----
(***************************************************************************)
(* Model of nova::dsp_thread_queue_item, nova::dsp_thread_queue and        *)
(* nova::dsp_queue_interpreter (source/server/dsp_thread_queue.hpp).       *)
(*                                                                         *)
(* Threads: worker 0 is the audio driver thread (init_tick, tick_master,   *)
(* reset_queue, release_queue, set_thread_count), workers 1..NumHelpers    *)
(* are helper threads calling tick(i).  Every atomic operation of the code *)
(* (load, store, fetch_sub, activation_count--, fifo enqueue / dequeue) is *)
(* one step; the atomics are taken as sequentially consistent and the      *)
(* lock-free fifo as a linearizable queue.                                 *)
(*                                                                         *)
(* assert(): a failing assertion is recorded in `failed` and the step      *)
(* is the last one: the debug build aborts.  The NDEBUG build goes on with *)
(* the same stores; the only assertion the program can trip is the one of  *)
(* reset_activation_count in reset_queue, whose store does not depend on   *)
(* the value asserted, so the NDEBUG build goes on from the state a        *)
(* reset_queue of a newly built graph leads to.                            *)
(***************************************************************************)
EXTENDS Integers, Sequences, FiniteSets, TLC

\* number of helper threads of the pool (workers 1..NumHelpers)
NumHelpers == 1

\* largest argument passed to set_thread_count / the constructor
MaxThreadArg == 2

\* width of activation_limit_t / node_count_t
ActivationBits == 16

\* width of thread_count_t
ThreadBits == 8

CountMod == 2 ^ ActivationBits

ThreadMod == 2 ^ ThreadBits

\* std::numeric_limits<thread_count_t>::max()
WORKER_MAX == ThreadMod - 1

Workers == 0 .. NumHelpers

Helpers == 1 .. NumHelpers

\* the two dsp_thread_queue objects the caller builds and hands over
Graphs == {1, 2}

\* node slots of a graph (queue_items indices, 1-based)
Nodes == 1 .. 4

\* a dsp_thread_queue_item pointer is <<graph, index>>
NULL == <<0, 0>>

Min(a, b) == IF a <= b THEN a ELSE b

Max(a, b) == IF a >= b THEN a ELSE b

(***************************************************************************)
(* The graphs the builder constructs.  n: number of add_queue_item calls,  *)
(* succ[i]: successor list of item i, limit[i]: its activation_limit,      *)
(* init: the add_initially_runnable calls in order.                        *)
(***************************************************************************)
EmptyGraph == [n |-> 0, succ |-> <<>>, limit |-> <<>>, init |-> <<>>]

SingleGraph == [n |-> 1, succ |-> << <<>> >>, limit |-> <<0>>, init |-> <<1>>]

ChainGraph ==
    [n |-> 4, succ |-> << <<2>>, <<3>>, <<4>>, <<>> >>,
     limit |-> <<0, 1, 1, 1>>, init |-> <<1>>]

DiamondGraph ==
    [n |-> 4, succ |-> << <<2, 3>>, <<4>>, <<4>>, <<>> >>,
     limit |-> <<0, 1, 1, 2>>, init |-> <<1>>]

JoinGraph ==
    [n |-> 3, succ |-> << <<>>, <<1>>, <<1>> >>,
     limit |-> <<2, 0, 0>>, init |-> <<3, 2>>]

FanGraph ==
    [n |-> 4, succ |-> << <<4, 2, 3>>, <<>>, <<>>, <<>> >>,
     limit |-> <<0, 1, 1, 1>>, init |-> <<1>>]

ShapeLib == <<EmptyGraph, SingleGraph, ChainGraph, DiamondGraph, JoinGraph, FanGraph>>

\* shapes of the second graph object
SecondShapes == {2, 5}

InDegree(s, v) ==
    Cardinality({e \in {<<u, k>> : u \in 1 .. s.n, k \in 1 .. 3} :
                    /\ e[2] <= Len(s.succ[e[1]])
                    /\ s.succ[e[1]][e[2]] = v})

\* the builder's contract: limit = in-degree, init = the nodes of limit 0
WellFormed(s) ==
    /\ \A v \in 1 .. s.n : s.limit[v] = InDegree(s, v)
    /\ {s.init[k] : k \in 1 .. Len(s.init)} = {v \in 1 .. s.n : s.limit[v] = 0}
    /\ Len(s.init) = Cardinality({v \in 1 .. s.n : s.limit[v] = 0})

VARIABLES
    gshape,               \* graph object -> index into ShapeLib
    activation_count,     \* graph object -> node -> activation_count
    queue,                \* dsp_queue_interpreter::queue (0: NULL)
    thread_count,
    used_helper_threads,
    fifo,
    node_count,
    pc,                   \* worker -> position in the code
    item,                 \* worker -> run_next_item's item
    consumed,             \* worker -> run_next_item's consumed
    idx,                  \* worker -> loop index i (update_dependencies, init_tick)
    ptr,                  \* worker -> update_dependencies' ptr
    mk,                   \* worker -> item passed to mark_as_runnable
    failed,               \* assertions that failed
    runs,                 \* history: node -> job invocations begun in this tick
    fin,                  \* history: node -> job invocations returned in this tick
    by,                   \* history: node -> thread_index its job was invoked with
    again,                \* history: this tick follows a tick on the same graph
    acted,                \* history: a dequeue succeeded since init_tick's store
    last,                 \* history: the driver thread's last completed call
    seeded,               \* history: the tick in progress / just ended was seeded
    trip,                 \* history: the install, install, release sequence under way
    targ,                 \* history: the argument of the last set_thread_count
    finals,               \* history: fetch_subs of this tick that saw remaining == consumed
    upd                   \* history: worker -> what its update_dependencies did so far

vars ==
    <<gshape, activation_count, queue, thread_count, used_helper_threads, fifo,
      node_count, pc, item, consumed, idx, ptr, mk, failed, runs, fin, by, again,
      acted, last, seeded, trip, targ, finals, upd>>

graphVars == <<gshape, activation_count, queue, thread_count, used_helper_threads>>

localVars == <<item, consumed, idx, ptr, mk>>

histVars == <<runs, fin, by, again, acted, last, seeded, trip>>

obsVars == <<targ, finals, upd>>

\* positions inside run_item's loop
InLoop == {"load", "deq", "run", "job", "upd1", "upd2", "mark", "reset", "sub"}

\* update_dependencies has not touched a successor yet
EmptyUpd == [dec |-> <<>>, zero |-> <<>>, sent |-> <<>>]

Shape(g) == ShapeLib[gshape[g]]

successors(p) == Shape(p[1]).succ[p[2]]

activation_limit(p) == Shape(p[1]).limit[p[2]]

ActCount(p) == activation_count[p[1]][p[2]]

get_total_node_count(g) == Shape(g).n

initially_runnable_items(g) == [k \in 1 .. Len(Shape(g).init) |-> <<g, Shape(g).init[k]>>]

\* dsp_thread_queue_item constructor: activation_count(0)
ConstructedCounts == [v \in Nodes |-> 0]


\* mutant: the counter is cleared instead of being set to activation_limit
reset_value_zero(p) == 0

\* dsp_thread_queue_item::reset_activation_count: the value stored
reset_value(p) == activation_limit(p)

\* mutant: the item is put at the front of the fifo
mark_as_runnable_front(q, p) == <<p>> \o q

\* mutant: the item is enqueued twice
mark_as_runnable_twice(q, p) == Append(Append(q, p), p)

\* dsp_queue_interpreter::mark_as_runnable: fifo.enqueue(item)
mark_as_runnable(q, p) == Append(q, p)

\* mutant: dequeue reads the head and leaves it in the fifo
dequeue_rest_kept(q) == q

\* fifo.dequeue(&item): what the fifo holds afterwards
dequeue_rest(q) == Tail(q)

\* activation_count-- / node_count.fetch_sub in the unsigned counter type
fetch_sub(c, d) == (c + CountMod - d) % CountMod

\* mutant: the argument is stored as it is
clamp_thread_count_none(i) == i

\* set_thread_count: i = std::max(thread_count_t(1u), i)
clamp_thread_count(i) == Max(1, i)

\* reset_queue: the number of helper threads for a graph of `total` nodes
helper_threads(total, tc) ==
    (Min(Min(total, WORKER_MAX) % ThreadMod, tc) + ThreadMod - 1) % ThreadMod

\* used_helper_threads is not initialised by the constructor: any value
UninitialisedThreads == {0, WORKER_MAX}

\* the state after the builder built the graphs and after
\* dsp_queue_interpreter(tc): fifo(1024), node_count(0), set_thread_count(tc)
Constructed(args) ==
    /\ gshape \in {f \in [Graphs -> 1 .. Len(ShapeLib)] : f[2] \in SecondShapes}
    /\ activation_count = [g \in Graphs |-> ConstructedCounts]
    /\ queue = 0
    /\ targ \in args
    /\ thread_count = clamp_thread_count(targ)
    /\ used_helper_threads \in UninitialisedThreads
    /\ fifo = <<>>
    /\ node_count = 0
    /\ pc = [w \in Workers |-> "out"]
    /\ item = [w \in Workers |-> NULL]
    /\ consumed = [w \in Workers |-> 0]
    /\ idx = [w \in Workers |-> 0]
    /\ ptr = [w \in Workers |-> NULL]
    /\ mk = [w \in Workers |-> NULL]
    /\ failed = {}
    /\ runs = [v \in Nodes |-> 0]
    /\ fin = [v \in Nodes |-> 0]
    /\ by = [v \in Nodes |-> -1]
    /\ again = FALSE
    /\ acted = FALSE
    /\ last = "ctor"
    /\ seeded = FALSE
    /\ trip = <<>>
    /\ finals = 0
    /\ upd = [w \in Workers |-> EmptyUpd]

\* no assertion has aborted the program
Running == failed = {}

\* the interpreter is constructed for the pool's threads: master and helpers
Init == Constructed({NumHelpers + 1})

\* the interpreter is constructed with any thread count
InitLife == Constructed(0 .. MaxThreadArg)

(***************************************************************************)
(* Queue lifecycle, called by the driver thread between ticks.             *)
(***************************************************************************)

\* history of the sequence install (from no graph), install, release
TripAfterReset(g, old) ==
    IF g # 0 /\ Len(trip) = 1 THEN Append(trip, [arg |-> g, ret |-> old])
    ELSE IF g # 0 /\ queue = 0 THEN <<[arg |-> g, ret |-> old]>>
    ELSE <<>>

TripAfterRelease(old) ==
    IF Len(trip) = 2 THEN Append(trip, [arg |-> 0, ret |-> old]) ELSE <<>>

\* the history of the last tick ends when the queue is replaced or released
ForgetTick ==
    /\ runs' = [v \in Nodes |-> 0]
    /\ fin' = [v \in Nodes |-> 0]
    /\ by' = [v \in Nodes |-> -1]
    /\ again' = FALSE
    /\ acted' = FALSE
    /\ seeded' = FALSE
    /\ finals' = 0

\* reset_queue / release_queue: dsp_thread_queue_ptr ret(queue.release())
released_queue == queue

\* mutant: release_queue hands out the graph and keeps it installed
queue_after_release_kept == queue

\* release_queue: what queue holds after queue.release()
queue_after_release == 0

\* dsp_thread_queue::reset_activation_counts on graph g: the assertion of
\* reset_activation_count fails for an item whose count is not 0
reset_assert_fails(g) ==
    \E v \in 1 .. get_total_node_count(g) : activation_count[g][v] # 0

\* mutant: the loop stops one item short
reset_activation_counts_short(g) ==
    [v \in Nodes |-> IF v < get_total_node_count(g) THEN reset_value(<<g, v>>) ELSE 0]

reset_activation_counts(g) ==
    [v \in Nodes |-> IF v <= get_total_node_count(g) THEN reset_value(<<g, v>>) ELSE 0]

reset_queue(g) ==
    /\ Running
    /\ pc[0] = "out"
    /\ g \in (Graphs \ {queue}) \cup {0}
    /\ queue' = g
    /\ IF g = 0
       THEN UNCHANGED <<activation_count, used_helper_threads, failed>>
       ELSE /\ failed' = failed \cup
                   (IF reset_assert_fails(g) THEN {"reset_activation_count"} ELSE {})
            /\ activation_count' = [activation_count EXCEPT ![g] = reset_activation_counts(g)]
            /\ used_helper_threads' = helper_threads(get_total_node_count(g), thread_count)
    /\ last' = "reset_queue"
    /\ trip' = TripAfterReset(g, released_queue)
    /\ ForgetTick
    /\ UNCHANGED <<gshape, thread_count, fifo, node_count, pc, localVars, targ, upd>>

release_queue ==
    /\ Running
    /\ pc[0] = "out"
    /\ queue' = queue_after_release
    /\ last' = "release_queue"
    /\ trip' = TripAfterRelease(released_queue)
    /\ ForgetTick
    /\ UNCHANGED <<gshape, activation_count, thread_count, used_helper_threads,
                   fifo, node_count, pc, localVars, failed, targ, upd>>

set_thread_count(i) ==
    /\ Running
    /\ pc[0] = "out"
    /\ failed' = failed \cup (IF i < WORKER_MAX THEN {} ELSE {"set_thread_count"})
    /\ thread_count' = clamp_thread_count(i)
    /\ targ' = i
    /\ last' = "set_thread_count"
    /\ UNCHANGED <<gshape, activation_count, queue, used_helper_threads, fifo,
                   node_count, pc, localVars, runs, fin, by, again, acted, seeded,
                   trip, finals, upd>>

\* the caller destroys a graph it owns and builds it again: every item is
\* constructed with activation_count(0)
build_queue(g) ==
    /\ Running
    /\ pc[0] = "out"
    /\ g \in Graphs \ {queue}
    /\ activation_count[g] # ConstructedCounts
    /\ activation_count' = [activation_count EXCEPT ![g] = ConstructedCounts]
    /\ UNCHANGED <<gshape, queue, thread_count, used_helper_threads, fifo, node_count,
                   pc, localVars, failed, histVars, obsVars>>

(***************************************************************************)
(* init_tick                                                               *)
(***************************************************************************)

\* mutant: the test for a graph without nodes is missing
no_queue_only == queue = 0

\* init_tick's early return
no_queue_or_empty == IF queue = 0 THEN TRUE ELSE get_total_node_count(queue) = 0

init_tick_false ==
    /\ Running
    /\ pc[0] = "out"
    /\ no_queue_or_empty
    /\ last' = "init_false"
    /\ UNCHANGED <<graphVars, fifo, node_count, pc, localVars, failed,
                   runs, fin, by, again, acted, seeded, trip, obsVars>>

\* mutant: the number of initially runnable items is stored
stored_node_count_initial == Len(initially_runnable_items(queue))

\* init_tick: the value of node_count.store
stored_node_count == get_total_node_count(queue)

\* the two assertions and node_count.store
init_tick_store ==
    /\ Running
    /\ pc[0] = "out"
    /\ ~no_queue_or_empty
    /\ failed' = failed \cup (IF node_count = 0 THEN {} ELSE {"init_tick node_count"})
                        \cup (IF fifo = <<>> THEN {} ELSE {"init_tick fifo"})
    /\ node_count' = stored_node_count
    /\ pc' = [pc EXCEPT ![0] = "init_enq"]
    /\ idx' = [idx EXCEPT ![0] = 0]
    /\ runs' = [v \in Nodes |-> 0]
    /\ fin' = [v \in Nodes |-> 0]
    /\ by' = [v \in Nodes |-> -1]
    /\ again' = (last = "tick_master" /\ seeded)
    /\ acted' = FALSE
    /\ seeded' = TRUE
    /\ last' = "init_store"
    /\ finals' = 0
    /\ UNCHANGED <<graphVars, fifo, item, consumed, ptr, mk, trip, targ, upd>>

\* one iteration of the loop over initially_runnable_items, or its end
init_tick_enqueue ==
    /\ Running
    /\ pc[0] = "init_enq"
    /\ IF idx[0] # Len(initially_runnable_items(queue))
       THEN /\ fifo' = mark_as_runnable(fifo, initially_runnable_items(queue)[idx[0] + 1])
            /\ idx' = [idx EXCEPT ![0] = idx[0] + 1]
            /\ UNCHANGED <<pc, last>>
       ELSE /\ pc' = [pc EXCEPT ![0] = "seeded"]
            /\ idx' = [idx EXCEPT ![0] = 0]
            /\ last' = "init_true"
            /\ UNCHANGED fifo
    /\ UNCHANGED <<graphVars, node_count, item, consumed, ptr, mk, failed,
                   runs, fin, by, again, acted, seeded, trip, obsVars>>


(***************************************************************************)
(* The worker loop: tick / tick_master, run_item, run_next_item, and the   *)
(* item's run, update_dependencies, dec_ref_count, reset_activation_count. *)
(***************************************************************************)

\* where a worker goes when run_item returns: the master to wait_for_end
AfterRunItem(w) == IF w = 0 THEN "wait" ELSE "out"

\* successors[i] (i is 0-based in the code, idx counts the items done)
successors_item(w) == <<item[w][1], successors(item[w])[idx[w] + 1]>>

\* mutant: consumed = 1 instead of consumed += 1
chain_length_one(c) == 1

\* run_next_item: consumed += 1
chain_length(c) == c + 1

\* history counters saturate at 2
Bump(f, v) == [f EXCEPT ![v] = Min(f[v] + 1, 2)]

\* tick(thread_index) of a helper thread
tick(w) ==
    /\ Running
    /\ w \in Helpers
    /\ pc[w] = "out"
    /\ pc' = [pc EXCEPT ![w] = "load"]
    /\ UNCHANGED <<graphVars, fifo, node_count, localVars, failed, histVars, obsVars>>

\* tick_master(), after init_tick returned true or without a seeded tick
tick_master ==
    /\ Running
    /\ pc[0] \in {"out", "seeded"}
    /\ pc' = [pc EXCEPT ![0] = "load"]
    /\ seeded' = (pc[0] = "seeded")
    /\ last' = "in_tick_master"
    /\ UNCHANGED <<graphVars, fifo, node_count, localVars, failed,
                   runs, fin, by, again, acted, trip, obsVars>>

\* mutant: run_item does not test node_count
has_nodes_always(nc) == TRUE

\* run_item: if (node_count.load(boost::memory_order_acquire))
has_nodes(nc) == nc # 0

\* run_item: if (node_count.load(acquire)) ... else return
run_item_load(w) ==
    /\ Running
    /\ pc[w] = "load"
    /\ pc' = [pc EXCEPT ![w] = IF has_nodes(node_count) THEN "deq" ELSE AfterRunItem(w)]
    /\ UNCHANGED <<graphVars, fifo, node_count, localVars, failed, histVars, obsVars>>

\* mutant: run_item returns when the dequeue failed
after_fifo_empty_exit(w) == AfterRunItem(w)

\* run_next_item returned fifo_empty: run_item's loop goes round again
after_fifo_empty(w) == "load"

\* run_next_item: fifo.dequeue(&item)
run_next_item_dequeue(w) ==
    /\ Running
    /\ pc[w] = "deq"
    /\ IF fifo = <<>>
       THEN /\ pc' = [pc EXCEPT ![w] = after_fifo_empty(w)]
            /\ UNCHANGED <<fifo, item, consumed, acted>>
       ELSE /\ item' = [item EXCEPT ![w] = Head(fifo)]
            /\ fifo' = dequeue_rest(fifo)
            /\ consumed' = [consumed EXCEPT ![w] = 0]
            /\ acted' = TRUE
            /\ pc' = [pc EXCEPT ![w] = "run"]
    /\ UNCHANGED <<graphVars, node_count, idx, ptr, mk, failed,
                   runs, fin, by, again, last, seeded, trip, obsVars>>

\* item->run: assert(activation_count == 0); the job is invoked
run_begin(w) ==
    /\ Running
    /\ pc[w] = "run"
    /\ failed' = failed \cup (IF ActCount(item[w]) = 0 THEN {} ELSE {"run"})
    /\ runs' = Bump(runs, item[w][2])
    /\ by' = [by EXCEPT ![item[w][2]] = w]
    /\ pc' = [pc EXCEPT ![w] = "job"]
    /\ UNCHANGED <<graphVars, fifo, node_count, localVars, fin, again, acted, last,
                   seeded, trip, obsVars>>

\* the job returns; update_dependencies starts with ptr empty and i = 0
job_return(w) ==
    /\ Running
    /\ pc[w] = "job"
    /\ fin' = Bump(fin, item[w][2])
    /\ idx' = [idx EXCEPT ![w] = 0]
    /\ ptr' = [ptr EXCEPT ![w] = NULL]
    /\ pc' = [pc EXCEPT ![w] = "upd1"]
    /\ UNCHANGED <<graphVars, fifo, node_count, item, consumed, mk, failed,
                   runs, by, again, acted, last, seeded, trip, obsVars>>

\* mutant: a successor is taken as runnable at every decrement
reaches_zero_any(current) == current >= 1

\* mutant: a successor is taken as runnable one decrement early
reaches_zero_early(current) == current = 1 \/ current = 2

\* dec_ref_count: if (current == 1)
reaches_zero(current) == current = 1

\* history: worker w decremented successor s, whose count was `current`
Noted(w, s) ==
    upd' = [upd EXCEPT ![w].dec = Append(@, s[2]),
                       ![w].zero = IF ActCount(s) = 1 THEN Append(@, s[2]) ELSE @]

\* mutant: a successor that became runnable is never kept for the caller
takes_directly_never(p) == FALSE

\* dec_ref_count(interpreter, ptr): if (ptr.get() == NULL) ptr.reset(this)
takes_directly(p) == p = NULL

\* activation_count-- on successor s, with assert(current > 0)
Decrement(s) ==
    /\ activation_count' =
           [activation_count EXCEPT ![s[1]][s[2]] = fetch_sub(ActCount(s), 1)]
    /\ failed' = failed \cup (IF ActCount(s) > 0 THEN {} ELSE {"dec_ref_count"})

\* update_dependencies, first loop: dec_ref_count(interpreter, ptr) until
\* ptr holds an item; return NULL at the end of the successor list
update_dependencies_first(w) ==
    /\ Running
    /\ pc[w] = "upd1"
    /\ IF idx[w] = Len(successors(item[w]))
       THEN /\ pc' = [pc EXCEPT ![w] = "reset"]
            /\ UNCHANGED <<activation_count, failed, idx, ptr, mk, upd>>
       ELSE LET s == successors_item(w) IN
            /\ Decrement(s)
            /\ Noted(w, s)
            /\ idx' = [idx EXCEPT ![w] = idx[w] + 1]
            /\ IF reaches_zero(ActCount(s))
               THEN IF takes_directly(ptr[w])
                    THEN /\ ptr' = [ptr EXCEPT ![w] = s]
                         /\ pc' = [pc EXCEPT ![w] = "upd2"]
                         /\ UNCHANGED mk
                    ELSE /\ mk' = [mk EXCEPT ![w] = s]
                         /\ pc' = [pc EXCEPT ![w] = "mark"]
                         /\ UNCHANGED ptr
               ELSE UNCHANGED <<pc, ptr, mk>>
    /\ UNCHANGED <<gshape, queue, thread_count, used_helper_threads, fifo,
                   node_count, item, consumed, histVars, targ, finals>>

\* mutant: the second loop is missing, the successors after the one kept
\* in ptr are not decremented
update_dependencies_rest_skip(w) ==
    /\ Running
    /\ pc[w] = "upd2"
    /\ pc' = [pc EXCEPT ![w] = "reset"]
    /\ UNCHANGED <<graphVars, fifo, node_count, localVars, failed, histVars, obsVars>>

\* update_dependencies, second loop: dec_ref_count(interpreter) on the
\* remaining successors; return ptr.release()
update_dependencies_rest(w) ==
    /\ Running
    /\ pc[w] = "upd2"
    /\ IF idx[w] = Len(successors(item[w]))
       THEN /\ pc' = [pc EXCEPT ![w] = "reset"]
            /\ UNCHANGED <<activation_count, failed, idx, mk, upd>>
       ELSE LET s == successors_item(w) IN
            /\ Decrement(s)
            /\ Noted(w, s)
            /\ idx' = [idx EXCEPT ![w] = idx[w] + 1]
            /\ IF reaches_zero(ActCount(s))
               THEN /\ mk' = [mk EXCEPT ![w] = s]
                    /\ pc' = [pc EXCEPT ![w] = "mark"]
               ELSE UNCHANGED <<pc, mk>>
    /\ UNCHANGED <<gshape, queue, thread_count, used_helper_threads, fifo,
                   node_count, item, consumed, ptr, histVars, targ, finals>>

\* interpreter.mark_as_runnable(this) inside dec_ref_count
dec_ref_count_mark(w) ==
    /\ Running
    /\ pc[w] = "mark"
    /\ fifo' = mark_as_runnable(fifo, mk[w])
    /\ mk' = [mk EXCEPT ![w] = NULL]
    /\ pc' = [pc EXCEPT ![w] = "upd2"]
    /\ upd' = [upd EXCEPT ![w].sent = Append(@, mk[w][2])]
    /\ UNCHANGED <<graphVars, node_count, item, consumed, idx, ptr, failed, histVars,
                   targ, finals>>

\* run: reset_activation_count(); return next; then run_next_item's
\* consumed += 1 and its loop test while (item != NULL)
run_reset(w) ==
    /\ Running
    /\ pc[w] = "reset"
    /\ failed' = failed \cup
           (IF ActCount(item[w]) = 0 THEN {} ELSE {"reset_activation_count in run"})
    /\ activation_count' =
           [activation_count EXCEPT ![item[w][1]][item[w][2]] = reset_value(item[w])]
    /\ consumed' = [consumed EXCEPT ![w] = chain_length(consumed[w])]
    /\ item' = [item EXCEPT ![w] = ptr[w]]
    /\ ptr' = [ptr EXCEPT ![w] = NULL]
    /\ idx' = [idx EXCEPT ![w] = 0]
    /\ pc' = [pc EXCEPT ![w] = IF ptr[w] # NULL THEN "run" ELSE "sub"]
    /\ upd' = [upd EXCEPT ![w] = EmptyUpd]
    /\ UNCHANGED <<gshape, queue, thread_count, used_helper_threads, fifo,
                   node_count, mk, histVars, targ, finals>>

\* run_next_item: if (remaining == consumed) return no_remaining_items
no_remaining(remaining, c) == remaining = c

\* run_next_item: node_count.fetch_sub(consumed), assert(remaining >= consumed)
run_next_item_subtract(w) ==
    /\ Running
    /\ pc[w] = "sub"
    /\ node_count' = fetch_sub(node_count, consumed[w])
    /\ failed' = failed \cup (IF node_count >= consumed[w] THEN {} ELSE {"run_next_item"})
    /\ pc' = [pc EXCEPT ![w] = IF no_remaining(node_count, consumed[w])
                               THEN AfterRunItem(w) ELSE "load"]
    /\ consumed' = [consumed EXCEPT ![w] = 0]
    /\ finals' = IF node_count = consumed[w] THEN Min(finals + 1, 2) ELSE finals
    /\ UNCHANGED <<graphVars, fifo, item, idx, ptr, mk, histVars, targ, upd>>

\* wait_for_end: the busy-wait ends when node_count is 0
wait_for_end ==
    /\ Running
    /\ pc[0] = "wait"
    /\ node_count = 0
    /\ pc' = [pc EXCEPT ![0] = "chk"]
    /\ UNCHANGED <<graphVars, fifo, node_count, localVars, failed, histVars, obsVars>>

\* run_item_master: assert(fifo.empty()); tick_master returns
tick_master_return ==
    /\ Running
    /\ pc[0] = "chk"
    /\ failed' = failed \cup (IF fifo = <<>> THEN {} ELSE {"run_item_master"})
    /\ pc' = [pc EXCEPT ![0] = "out"]
    /\ last' = "tick_master"
    /\ UNCHANGED <<graphVars, fifo, node_count, localVars, runs, fin, by, again,
                   acted, seeded, trip, obsVars>>

WorkerStep(w) ==
    \/ run_item_load(w)
    \/ run_next_item_dequeue(w)
    \/ run_begin(w)
    \/ job_return(w)
    \/ update_dependencies_first(w)
    \/ update_dependencies_rest(w)
    \/ dec_ref_count_mark(w)
    \/ run_reset(w)
    \/ run_next_item_subtract(w)

\* the steps of the driver thread inside a seeded tick
MasterTick ==
    \/ (pc[0] = "seeded" /\ tick_master)
    \/ wait_for_end
    \/ tick_master_return

\* everything of a tick but a helper's call of tick
Ticks ==
    \/ init_tick_false
    \/ init_tick_store
    \/ init_tick_enqueue
    \/ tick_master
    \/ wait_for_end
    \/ tick_master_return
    \/ \E w \in Workers : WorkerStep(w)

Lifecycle ==
    \/ \E g \in Graphs \cup {0} : reset_queue(g)
    \/ release_queue
    \/ \E g \in Graphs : build_queue(g)

\* no step of a tick reads thread_count: set_thread_count is left to SpecLife
Next ==
    \/ Lifecycle
    \/ Ticks
    \/ \E w \in Helpers : tick(w)

Spec == Init /\ [][Next]_vars

\* every worker inside the worker loop, and the driver thread inside
\* tick_master, keeps being scheduled; nothing makes a helper call tick
FairSpec ==
    /\ Spec
    /\ \A w \in Workers : WF_vars(WorkerStep(w))
    /\ WF_vars(MasterTick)

\* the driver thread alone: configuration, queue lifecycle and ticks
NextLife ==
    \/ Lifecycle
    \/ \E i \in 0 .. MaxThreadArg : set_thread_count(i)
    \/ Ticks

SpecLife == InitLife /\ [][NextLife]_vars

(***************************************************************************)
(* Properties                                                              *)
(***************************************************************************)

\* the shape of the installed graph, read from the builder's data
Installed == ShapeLib[gshape[queue]]

\* the history variables describe a tick on the installed graph: from
\* init_tick's store until the driver's next call after tick_master
TickScope ==
    /\ seeded
    /\ queue # 0
    /\ last \in {"init_store", "init_true", "in_tick_master", "tick_master"}

\* tick_master has returned from a tick that init_tick seeded
TickDone == TickScope /\ last = "tick_master"

\* C1: on a well-formed graph, under every interleaving of master and
\* helpers, no job is invoked twice in a tick, and when tick_master returns
\* every node's job has been invoked, and has returned, exactly once.
C1_ExactlyOnce ==
    (TickScope /\ WellFormed(Installed)) =>
        /\ \A v \in Nodes : runs[v] <= 1 /\ fin[v] <= runs[v]
        /\ \A v \in Nodes : v > Installed.n => runs[v] = 0
        /\ TickDone => \A v \in 1 .. Installed.n : runs[v] = 1 /\ fin[v] = 1

\* a tick on the diamond has ended, its middle nodes run by different workers
C1_Witness ==
    /\ TickDone
    /\ Installed = DiamondGraph
    /\ \A v \in 1 .. 4 : runs[v] = 1
    /\ by[2] # by[3]

\* C2: for every edge u -> v of the installed graph, v's job is invoked
\* only after u's job has returned.
C2_Precedence ==
    TickScope =>
        \A u \in 1 .. Installed.n : \A k \in 1 .. Len(Installed.succ[u]) :
            runs[Installed.succ[u][k]] >= 1 => fin[u] >= 1

\* the last node of the diamond is being run, after two workers ran the
\* middle nodes
C2_Witness ==
    /\ TickScope
    /\ Installed = DiamondGraph
    /\ by[2] # by[3]
    /\ \E w \in Workers : pc[w] = "job" /\ item[w] = <<queue, 4>>

\* C3: when tick_master returns from a seeded tick, node_count is 0 and the
\* fifo is empty; the assertion fifo.empty() of run_item_master holds.
C3_TickMasterReturn ==
    /\ TickDone => node_count = 0 /\ fifo = <<>>
    /\ pc[0] = "chk" => fifo = <<>>
    /\ "run_item_master" \notin failed

\* tick_master has returned from a tick in which a helper ran a node
C3_Witness ==
    /\ TickDone
    /\ \E v \in 1 .. Installed.n : by[v] >= 1

\* C4: once init_tick has returned true, node_count reaches 0 and
\* tick_master returns, whether or not a helper ever calls tick.
C4_TickTerminates ==
    (last = "init_true") ~> (last = "tick_master" /\ node_count = 0)

\* the master alone ran the four nodes of a graph and tick_master returned
C4_Witness ==
    /\ TickDone
    /\ Installed.n = 4
    /\ \A v \in 1 .. 4 : by[v] = 0
    /\ \A w \in Helpers : pc[w] = "out"

\* C5: a node handed to run(), dequeued or direct successor, has
\* activation_count 0 when its job begins, and keeps it while the job runs;
\* the assertion of run() holds.
C5_RunAtZero ==
    /\ \A w \in Workers : pc[w] \in {"run", "job"} => activation_count[item[w][1]][item[w][2]] = 0
    /\ "run" \notin failed

\* a worker is about to run a direct successor that has two predecessors
C5_Witness ==
    \E w \in Workers :
        /\ pc[w] = "run"
        /\ consumed[w] >= 1
        /\ Shape(item[w][1]).limit[item[w][2]] = 2

\* C6: right after reset_queue installed a graph and after every return of
\* tick_master, every node's activation_count equals its activation_limit;
\* a tick that follows a tick on the same graph again runs every node once.
C6_QuiescentCounts ==
    /\ (Running /\ queue # 0 /\ last \in {"reset_queue", "tick_master"}) =>
           \A v \in 1 .. Installed.n : activation_count[queue][v] = Installed.limit[v]
    /\ (TickDone /\ again) => \A v \in 1 .. Installed.n : runs[v] = 1

\* the second of two back-to-back ticks on the diamond has ended
C6_Witness ==
    /\ TickDone
    /\ again
    /\ Installed = DiamondGraph
    /\ \E v \in 1 .. 4 : by[v] >= 1

\* no graph is installed, or the installed graph has no nodes
NoGraphOrNoNodes == IF queue = 0 THEN TRUE ELSE Installed.n = 0

\* C7: init_tick returns false exactly when no graph is installed or the
\* graph has no nodes, and then node_count is and stays 0, the fifo is and
\* stays empty, and the graph, thread_count and used_helper_threads do not
\* change.
C7_InitTickFalse ==
    [][/\ (last' = "init_false" /\ last # "init_false") =>
              /\ NoGraphOrNoNodes
              /\ node_count = 0 /\ fifo = <<>>
              /\ UNCHANGED <<node_count, fifo, queue, gshape, activation_count,
                             thread_count, used_helper_threads>>
       /\ (last' = "init_store" /\ last # "init_store") => ~NoGraphOrNoNodes
       /\ (last' = "init_true" /\ last # "init_true") => ~NoGraphOrNoNodes]_vars

\* init_tick has returned false on an installed graph without nodes
C7_Witness ==
    /\ last = "init_false"
    /\ queue # 0
    /\ Installed.n = 0
    /\ node_count = 0
    /\ fifo = <<>>

\* C8: when init_tick has returned true and no worker has dequeued yet,
\* node_count is the graph's total_node_count and the fifo holds the
\* initially runnable nodes, each once, in the graph's order.
C8_Seeded ==
    (pc[0] = "seeded" /\ ~acted) =>
        /\ node_count = Installed.n
        /\ fifo = [k \in 1 .. Len(Installed.init) |-> <<queue, Installed.init[k]>>]

\* init_tick has seeded two nodes while a helper is inside the worker loop
C8_Witness ==
    /\ pc[0] = "seeded"
    /\ ~acted
    /\ Len(fifo) = 2
    /\ \E w \in Helpers : pc[w] = "deq"

\* C9: from no graph installed, reset_queue(A) returns no graph,
\* reset_queue(B) returns A, release_queue returns B, and afterwards no
\* graph is installed, the fifo is empty and node_count is 0.
C9_RoundTrip ==
    /\ Len(trip) >= 1 => trip[1].ret = 0
    /\ Len(trip) >= 2 => trip[2].ret = trip[1].arg
    /\ Len(trip) = 3 =>
           /\ trip[3].ret = trip[2].arg
           /\ queue = 0
           /\ fifo = <<>>
           /\ node_count = 0

\* the release of the round trip has returned
C9_Witness ==
    /\ Len(trip) = 3
    /\ last = "release_queue"

\* C10 as amended: reset_activation_count sets a counter that is 0 to
\* activation_limit without tripping its assertion, which is the case in
\* run() and when reset_queue installs a newly built graph; when
\* reset_queue is given a graph with a non-zero counter the assertion
\* activation_count == 0 fails.
C10_ResetNeedsZero ==
    [][/\ (queue' # queue /\ queue' # 0) =>
              /\ (\A v \in 1 .. ShapeLib[gshape[queue']].n : activation_count[queue'][v] = 0) =>
                     /\ failed' = failed
                     /\ \A v \in 1 .. ShapeLib[gshape[queue']].n :
                            activation_count'[queue'][v] = ShapeLib[gshape[queue']].limit[v]
              /\ (\E v \in 1 .. ShapeLib[gshape[queue']].n : activation_count[queue'][v] # 0) =>
                     "reset_activation_count" \in failed'
       /\ \A w \in Workers : (pc[w] = "reset" /\ pc'[w] # "reset") =>
              /\ activation_count[item[w][1]][item[w][2]] = 0
              /\ activation_count'[item[w][1]][item[w][2]] =
                     ShapeLib[gshape[item[w][1]]].limit[item[w][2]]
              /\ failed' = failed]_vars

\* a newly built graph with a node of non-zero activation_limit is installed
C10_Witness ==
    /\ last = "reset_queue"
    /\ queue # 0
    /\ failed = {}
    /\ \E v \in 1 .. Installed.n : Installed.limit[v] > 0 /\ activation_count[queue][v] = Installed.limit[v]

\* C10 as stated: whatever the counters of the graph handed to reset_queue
\* are, they are set to activation_limit and no assertion is tripped.
C10_AnyValue ==
    (last = "reset_queue" /\ queue # 0) =>
        /\ \A v \in 1 .. Installed.n : activation_count[queue][v] = Installed.limit[v]
        /\ "reset_activation_count" \notin failed

\* C11: after reset_queue installed a graph, used_helper_threads is
\* min(thread_count, min(total_node_count, WORKER_MAX)) - 1, thread_count
\* being the value the last set_thread_count stored.
C11_HelperThreads ==
    (last = "reset_queue" /\ queue # 0) =>
        used_helper_threads = Min(thread_count, Min(Installed.n, WORKER_MAX)) - 1

\* C12: set_thread_count(n) stores max(1, n) as thread_count and leaves
\* used_helper_threads, the installed graph, node_count and the fifo as they
\* are; the next reset_queue of a graph with nodes computes
\* used_helper_threads from the thread_count stored last.
C12_SetThreadCount ==
    [][/\ (last' = "set_thread_count" /\ (last # "set_thread_count" \/ targ' # targ)) =>
              /\ thread_count' = (IF targ' >= 1 THEN targ' ELSE 1)
              /\ UNCHANGED <<used_helper_threads, queue, gshape, activation_count,
                             node_count, fifo>>
       /\ (queue' # queue /\ queue' # 0 /\ Installed'.n >= 1) =>
              used_helper_threads' + 1 =
                  (IF thread_count <= Installed'.n THEN thread_count ELSE Installed'.n)]_vars

\* set_thread_count(0) was called on an interpreter whose graph was installed
\* with two threads: thread_count is 1, used_helper_threads is still 1
C12_Witness ==
    /\ last = "set_thread_count"
    /\ targ = 0
    /\ thread_count = 1
    /\ queue # 0
    /\ Installed.n >= 2
    /\ used_helper_threads = 1

C14_UpdateDependencies ==
    \A w \in Workers :
        pc[w] \in {"upd1", "upd2", "mark", "reset"} =>
            /\ Len(upd[w].dec) <= Len(successors(item[w]))
            /\ upd[w].dec = SubSeq(successors(item[w]), 1, Len(upd[w].dec))
            /\ pc[w] = "reset" =>
                  /\ upd[w].dec = successors(item[w])
                  /\ IF upd[w].zero = <<>>
                     THEN ptr[w] = NULL /\ upd[w].sent = <<>>
                     ELSE /\ ptr[w] = <<item[w][1], Head(upd[w].zero)>>
                          /\ upd[w].sent = Tail(upd[w].zero)

\* the fan-out node brought its three successors 4, 2, 3 to zero: 4 is
\* returned, 2 and 3 were enqueued
C14_Witness ==
    \E w \in Workers :
        /\ pc[w] = "reset"
        /\ upd[w].zero = <<4, 2, 3>>
        /\ upd[w].sent = <<2, 3>>
        /\ ptr[w] = <<queue, 4>>

\* the places a node can be in: entries of the fifo; workers about to run it
\* or running its job; workers keeping it as the item update_dependencies
\* returns; workers inside dec_ref_count that have not enqueued it yet;
\* init_tick's loop that has not enqueued it yet
InFifo(p) == Cardinality({k \in 1 .. Len(fifo) : fifo[k] = p})

RunBy(p) == Cardinality({w \in Workers : pc[w] \in {"run", "job"} /\ item[w] = p})

HeldNext(p) == Cardinality({w \in Workers : ptr[w] = p})

Marking(p) == Cardinality({w \in Workers : mk[w] = p})

Unseeded(p) ==
    IF pc[0] = "init_enq" /\
       \E k \in idx[0] + 1 .. Len(initially_runnable_items(queue)) :
           initially_runnable_items(queue)[k] = p
    THEN 1 ELSE 0

\* activation_count is 0 and the job has not returned in this tick
ReadyUnfinished(v) == ActCount(<<queue, v>>) = 0 /\ fin[v] = 0

\* C15 as stated: between init_tick's return and tick_master's return a node
\* whose count reached 0 and whose job has not finished is in exactly one of:
\* the fifo, a worker running it, a worker holding it as direct successor.
C15_ExactlyOnePlace ==
    (seeded /\ queue # 0 /\ last \in {"init_true", "in_tick_master"}) =>
        \A v \in 1 .. Installed.n :
            ReadyUnfinished(v) =>
                InFifo(<<queue, v>>) + RunBy(<<queue, v>>) + HeldNext(<<queue, v>>) = 1

\* C15, amended: such a node is in at most one of these places, and in none
\* of them only while the worker that brought it to 0 has not enqueued it yet
\* or while init_tick has not enqueued it yet; a node in the fifo has not
\* been run in this tick and no worker holds it.
C15_AtMostOnePlace ==
    TickScope =>
        \A v \in 1 .. Installed.n :
            LET p == <<queue, v>> IN
            /\ InFifo(p) + RunBy(p) + HeldNext(p) <= 1
            /\ InFifo(p) >= 1 => runs[v] = 0 /\ Marking(p) = 0 /\ Unseeded(p) = 0
            /\ ReadyUnfinished(v) =>
                  InFifo(p) + RunBy(p) + HeldNext(p) + Marking(p) + Unseeded(p) = 1

\* a worker holds node 2 as direct successor while node 3, which it also
\* brought to 0, is not enqueued yet, and the other worker runs a node
C15_Witness ==
    /\ TickScope
    /\ Installed = DiamondGraph
    /\ \E w \in Workers :
          /\ pc[w] = "mark"
          /\ HeldNext(<<queue, 2>>) = 1
          /\ Marking(<<queue, 3>>) = 1
          /\ ReadyUnfinished(3)
          /\ InFifo(<<queue, 3>>) = 0

\* the sum of f over the set S of workers
RECURSIVE SumOver(_, _)
SumOver(f, S) ==
    IF S = {} THEN 0
    ELSE LET w == CHOOSE x \in S : TRUE IN f[w] + SumOver(f, S \ {w})

\* nodes of worker w's chain whose job returned and that are not yet
\* subtracted from node_count
Unsubtracted ==
    [w \in Workers |->
        consumed[w] + (IF pc[w] \in {"upd1", "upd2", "mark", "reset"} THEN 1 ELSE 0)]

\* nodes whose job returned in this tick
Finished == {v \in 1 .. Installed.n : fin[v] >= 1}

\* C16: in a tick node_count only goes down, by fetch_subs of a chain length
\* consumed >= 1 from a value >= consumed (the assertion never fails); what
\* has been subtracted is the number of nodes in the chains completed, so the
\* chain lengths of a tick sum to total_node_count; only init_tick's store
\* raises node_count.
C16_NodeCount ==
    /\ [](/\ "run_next_item" \notin failed
          /\ \A w \in Workers :
                pc[w] = "sub" => consumed[w] >= 1 /\ node_count >= consumed[w]
          /\ TickScope =>
                /\ node_count + Cardinality(Finished) =
                       Installed.n + SumOver(Unsubtracted, Workers)
                /\ TickDone => node_count = 0 /\ Cardinality(Finished) = Installed.n)
    /\ [][node_count' # node_count =>
              IF last' = "init_store" /\ last # "init_store"
              THEN node_count = 0
              ELSE /\ node_count' < node_count
                   /\ \E w \in Workers :
                         /\ pc[w] = "sub"
                         /\ pc'[w] # "sub"
                         /\ node_count' = node_count - consumed[w]]_vars

\* two workers each subtracted a chain of the diamond: the last one takes
\* node_count from 2 to 0 after the other took it from 4 to 2
C16_Witness ==
    /\ TickScope
    /\ Installed = DiamondGraph
    /\ node_count = 2
    /\ \E w \in Workers : pc[w] = "sub" /\ consumed[w] = 2
    /\ Cardinality(Finished) = 4

\* C17: in a tick exactly one fetch_sub sees the previous value equal to its
\* consumed, and that worker returns; every other worker leaves run_item only
\* by loading node_count == 0; nobody leaves while node_count is not 0, a
\* failed dequeue makes the worker try again.
C17_OneLastWorker ==
    /\ [](TickScope => finals = (IF node_count = 0 THEN 1 ELSE 0))
    /\ [][\A w \in Workers :
             /\ (pc[w] \in InLoop /\ pc'[w] = AfterRunItem(w)) =>
                   /\ node_count' = 0
                   /\ \/ pc[w] = "load" /\ node_count = 0
                      \/ pc[w] = "sub" /\ node_count = consumed[w]
             /\ (pc[w] = "sub" /\ pc'[w] # "sub" /\ node_count = consumed[w]) =>
                   pc'[w] = AfterRunItem(w)
             /\ (pc[w] = "deq" /\ pc'[w] # "deq" /\ fifo = <<>>) =>
                   pc'[w] = "load" /\ node_count' = node_count]_vars

\* the helper ran the diamond's last node and its fetch_sub was the last
\* one; the master left the loop by loading 0
C17_Witness ==
    /\ TickScope
    /\ Installed = DiamondGraph
    /\ by[4] = 1
    /\ pc[1] = "out"
    /\ pc[0] = "wait"
    /\ finals = 1
    /\ node_count = 0

\* nodes worker w holds in a chain it has not subtracted yet: those it ran,
\* the one it is about to run or running or updating from, the one kept as
\* direct successor, and the one it is about to enqueue
Held ==
    [w \in Workers |->
        consumed[w]
        + (IF pc[w] \in {"run", "job", "upd1", "upd2", "mark", "reset"} THEN 1 ELSE 0)
        + (IF ptr[w] # NULL THEN 1 ELSE 0)
        + (IF mk[w] # NULL THEN 1 ELSE 0)]

\* C18: in every reachable state the nodes in the fifo plus the nodes held by
\* workers in chains not yet subtracted are at most node_count; so the fifo
\* never holds more than total_node_count items, node_count == 0 means an
\* empty fifo and no worker holding a node, and init_tick's two assertions
\* hold whenever it is called.
C18_Occupancy ==
    /\ Len(fifo) + SumOver(Held, Workers) <= node_count
    /\ queue # 0 => Len(fifo) <= Installed.n
    /\ queue = 0 => node_count = 0
    /\ node_count = 0 => fifo = <<>> /\ \A w \in Workers : Held[w] = 0
    /\ failed \cap {"init_tick node_count", "init_tick fifo", "run_item_master"} = {}

\* the fan-out node was run: two successors are in the fifo, one is kept as
\* direct successor, and nothing has been subtracted yet
C18_Witness ==
    /\ queue # 0
    /\ Installed = FanGraph
    /\ Len(fifo) = 2
    /\ node_count = 4
    /\ \E w \in Workers : pc[w] = "reset" /\ ptr[w] # NULL /\ Held[w] = 2

\* C19: after reset_queue installed a graph, also one without nodes,
\* used_helper_threads is at most thread_count - 1: the subtraction of 1
\* does not wrap around.
C19_NoWrap ==
    (last = "reset_queue" /\ queue # 0) => used_helper_threads <= thread_count - 1

\* what a worker that finds node_count == 0 must leave alone
TickState == <<fifo, node_count, activation_count, runs, fin, by>>

\* C20: a worker that enters tick or tick_master and loads node_count == 0
\* returns without invoking a job, without touching the fifo, node_count or
\* any activation_count; a helper that is still in the loop when the master
\* seeds the next tick works as a worker of that tick, in which every job
\* still runs exactly once and after its predecessors.
C20_IdleAndLingering ==
    /\ []((last = "in_tick_master" /\ ~seeded) =>
              node_count = 0 /\ pc[0] \in {"load", "wait", "chk"})
    /\ []((TickScope /\ again) =>
              /\ \A v \in Nodes :
                    runs[v] <= (IF v <= Installed.n THEN 1 ELSE 0) /\ fin[v] <= runs[v]
              /\ \A u \in 1 .. Installed.n : \A v \in 1 .. Installed.n :
                    (runs[v] >= 1 /\ \E k \in 1 .. Len(Installed.succ[u]) :
                                         Installed.succ[u][k] = v) => fin[u] = 1
              /\ TickDone => \A v \in 1 .. Installed.n : fin[v] = 1)
    /\ [][\A w \in Workers :
             /\ (pc[w] = "out" /\ pc'[w] = "load") => UNCHANGED TickState
             /\ (pc[w] = "load" /\ pc'[w] # "load" /\ node_count = 0) =>
                   pc'[w] = AfterRunItem(w) /\ UNCHANGED TickState
             /\ (pc[w] \in {"wait", "chk"} /\ pc'[w] # pc[w]) => UNCHANGED TickState]_vars

\* the master is inside init_tick of a tick that follows another one, and a
\* helper, not woken yet for this tick, is already running one of its jobs
C20_Witness ==
    /\ TickScope
    /\ again
    /\ pc[0] = "init_enq"
    /\ \E w \in Helpers : pc[w] = "job"

====
